---------------------------- MODULE Spec2Model ----------------------------
(***************************************************************************)
(* redis-nextra: the shard router (ServerManager) and the protocol         *)
(* transport (Connection).                                                 *)
(*                                                                         *)
(* Three specifications share the variables below:                         *)
(*   SpecKey   the hash-tag extraction of serverNameForKey, applied to     *)
(*             every key of a bounded alphabet;                            *)
(*   SpecConn  one Connection driven by write(), end(), the socket's       *)
(*             events and the reconnect timer;                             *)
(*   Spec      one ServerManager: bootstrap (static or discovery),         *)
(*             sendCommand, serverRemove, end.                             *)
(***************************************************************************)
EXTENDS Integers, Sequences, FiniteSets, TLC

(* ------------------------------ bounds -------------------------------- *)

\* Longest key the extraction is applied to in SpecKey.
MaxKeyLen == 4

\* Number of result handles callers may create (write / sendCommand calls).
MaxCmds == 3

(* ------------------------------ strings ------------------------------- *)

\* A string is a sequence of characters; these are the characters of keys.
KeyChars == {"{", "}", "a", "b"}

RECURSIVE SeqsUpTo(_, _)
SeqsUpTo(S, n) ==
  IF n = 0 THEN {<<>>}
  ELSE LET shorter == SeqsUpTo(S, n - 1)
       IN  shorter \cup {Append(s, c) : s \in {t \in shorter : Len(t) = n - 1}, c \in S}

AllKeys == SeqsUpTo(KeyChars, MaxKeyLen)

\* The indexes i of s with s[i] = c.
IndexesOf(s, c) == {i \in 1..Len(s) : s[i] = c}

Min(S) == CHOOSE x \in S : \A y \in S : x <= y

\* serverNameForKey, lines 131-143: the string handed to ring.getCached.
\* The outer loop stops at the first "{"; the inner loop takes the first "}"
\* after it and replaces key by key.substring(i + 1, j), whatever its length.
HashKeyOf(k) ==
  IF IndexesOf(k, "{") = {} THEN k
  ELSE LET i == Min(IndexesOf(k, "{"))
           closing == {j \in IndexesOf(k, "}") : j > i}
       IN  IF closing = {} THEN k
           ELSE SubSeq(k, i + 1, Min(closing) - 1)

(* ------------------------- values of arguments ------------------------ *)

\* A JavaScript value passed as a command argument: a string, an array of
\* values, or an object (a {resolve, reject} handle).
Str(s)     == [t |-> "str", s |-> s,    a |-> <<>>, h |-> 0]
Arr(a)     == [t |-> "arr", s |-> <<>>, a |-> a,    h |-> 0]
Obj(h)     == [t |-> "obj", s |-> <<>>, a |-> <<>>, h |-> h]

\* Array.prototype.join(",") over strings.
RECURSIVE JoinComma(_)
JoinComma(ss) ==
  IF ss = <<>> THEN <<>>
  ELSE IF Len(ss) = 1 THEN ss[1]
  ELSE ss[1] \o <<",">> \o JoinComma(Tail(ss))

\* String(value), line 131: a string is itself, an array is its elements
\* joined by ",", an object is "[object Object]" (one token here).
StringOf(v) ==
  IF v.t = "str" THEN v.s
  ELSE IF v.t = "arr" THEN JoinComma([i \in DOMAIN v.a |-> v.a[i]])
  ELSE <<"[object Object]">>

\* String(undefined): args[command.key] of an argument that is not there.
Undefined == <<"undefined">>


(* -------------------------------- ring -------------------------------- *)

\* Host identities ("address:port" strings; none contains a brace).
Hosts == {"A", "B", "C"}

\* What servers[name] is asked for when the ring has no member to return.
NoServer == "undefined"

\* The ring: null until connect() builds it, then its members in slot order.
NullRing  == [built |-> FALSE, members |-> <<>>]
FreshRing == [built |-> TRUE,  members |-> <<>>]

Range(f) == {f[i] : i \in DOMAIN f}

CharCode(c) ==
  CASE c = "{" -> 1 [] c = "}" -> 2 [] c = "a" -> 3 [] c = "b" -> 4
    [] c = "," -> 5 [] OTHER -> 6

RECURSIVE HashOf(_)
HashOf(k) == IF k = <<>> THEN 0 ELSE (CharCode(Head(k)) + 2 * HashOf(Tail(k))) % 16

\* ring.getCached(key): one deterministic hash decides the slot.
RingGetCached(r, k) ==
  IF r.members = <<>> THEN NoServer
  ELSE r.members[(HashOf(k) % Len(r.members)) + 1]

\* ring.add({key, weight})
RingAdd(r, id) == [r EXCEPT !.members = Append(@, id)]

\* ring.remove(key)
RingRemove(r, id) ==
  [r EXCEPT !.members = SelectSeq(@, LAMBDA m : m # id)]

\* ring.replace({key: old}, {key: new}): the new identity takes the old slot.
RingReplace(r, old, new) ==
  [r EXCEPT !.members = [i \in DOMAIN @ |-> IF @[i] = old THEN new ELSE @[i]]]

\* serverNameForKey without the tag extraction: the whole key is hashed.
ServerNameForKey_WholeKey(r, v) == RingGetCached(r, v)

\* serverNameForKey, lines 130-146.
ServerNameForKey(r, v) == RingGetCached(r, HashKeyOf(v))

(* ---------------------------- command table --------------------------- *)

\* The command names callers submit; "NOPE" is missing from the table.
CmdNames == {"GET", "KEYS", "PING", "SUBSCRIBE", "NOPE"}

\* commands[cmd]: present is FALSE for a name the table does not hold.
Descriptor(cmd) ==
  CASE cmd = "GET"       -> [present |-> TRUE,  supported |-> TRUE,  router |-> FALSE, hasKey |-> TRUE,  key |-> 0]
    [] cmd = "KEYS"      -> [present |-> TRUE,  supported |-> TRUE,  router |-> TRUE,  hasKey |-> FALSE, key |-> 0]
    [] cmd = "PING"      -> [present |-> TRUE,  supported |-> TRUE,  router |-> FALSE, hasKey |-> FALSE, key |-> 0]
    [] cmd = "SUBSCRIBE" -> [present |-> TRUE,  supported |-> FALSE, router |-> FALSE, hasKey |-> TRUE,  key |-> 0]
    [] OTHER             -> [present |-> FALSE, supported |-> FALSE, router |-> FALSE, hasKey |-> FALSE, key |-> 0]

(* ------------------------------ variables ----------------------------- *)

VARIABLES
  probeKey,         \* SpecKey: the key given to serverNameForKey
  probeOut,         \* SpecKey: the string it handed to the ring
  probeDone,        \* SpecKey: serverNameForKey has run
  handlers,         \* Connection.handlers, per host
  connected,        \* Connection.connected
  reconnecting,     \* Connection.reconnecting
  connEnded,        \* Connection.ended
  timers,           \* pending reconnect timers (Connection._retryTimer)
  reader,           \* replies the decoder holds and get() has not returned
  sock,             \* state of Connection.stream
  wire,             \* commands written on the socket, not yet answered
  nextHandle,       \* next result handle a caller creates
  outcome,          \* what became of each result handle
  calls,            \* how often each handle was notified
  repliedBy,        \* the command whose reply settled the handle (0: none)
  ended,            \* ServerManager.ended
  offlineQueue,     \* ServerManager.offlineQueue
  hosts,            \* ServerManager.hosts
  replacementHosts, \* ServerManager.replacementHosts
  ring,             \* ServerManager.ring
  servers,          \* client.servers: the identities that hold a Server
  discovery,        \* the discovery callback: none, pending, done, failed
  config,           \* the host configuration the resolver yields
  clientErrors,     \* error codes emitted on the client
  uncaught,         \* a TypeError escaped a handler
  readyCount,       \* setup()'s counter of serverConnect events
  readyListening,   \* connectCounter is still a serverConnect listener
  readyEmits,       \* how many times 'ready' was emitted on the client
  everConnected,    \* the hosts whose Server raised serverConnect
  step              \* the operation that ran last, with its inputs

probeVars == <<probeKey, probeOut, probeDone>>
connVars == <<handlers, connected, reconnecting, connEnded, timers, reader, sock, wire>>
handleVars == <<nextHandle, outcome, calls, repliedBy>>
routerVars == <<ended, offlineQueue, hosts, replacementHosts, ring, servers, discovery, config>>
readyVars == <<readyCount, readyListening, readyEmits, everConnected>>
vars == <<probeVars, connVars, handleVars, routerVars, readyVars, clientErrors, uncaught, step>>

\* Handles callers create, and the promises sendCommand creates for the
\* entries connect() re-submits (FreshOf).
UserHandles == 1..MaxCmds
HandleIds == 1..(2 * MaxCmds)
FreshOf(id) == id + MaxCmds

NoStep == [op |-> "init", host |-> "", cmd |-> "", argv |-> <<>>, id |-> 0, n |-> 0, passed |-> FALSE]
StepOf(op, h) == [NoStep EXCEPT !.op = op, !.host = h]

NoQueue == [exists |-> FALSE, items |-> <<>>]

\* A Connection right after its constructor, and the fields of a host that
\* has none.
InitConn ==
  /\ handlers = [h \in Hosts |-> <<>>]
  /\ connected = [h \in Hosts |-> FALSE]
  /\ reconnecting = [h \in Hosts |-> FALSE]
  /\ connEnded = [h \in Hosts |-> FALSE]
  /\ timers = [h \in Hosts |-> 0]
  /\ reader = [h \in Hosts |-> <<>>]
  /\ wire = [h \in Hosts |-> <<>>]

InitHandles ==
  /\ nextHandle = 1
  /\ outcome = [id \in HandleIds |-> "none"]
  /\ calls = [id \in HandleIds |-> 0]
  /\ repliedBy = [id \in HandleIds |-> 0]

InitProbeIdle ==
  /\ probeKey = <<>>
  /\ probeOut = <<>>
  /\ probeDone = FALSE

\* setup(), lines 186 and 192: the counter at 0, connectCounter listening.
InitReady ==
  /\ readyCount = 0
  /\ readyListening = TRUE
  /\ readyEmits = 0
  /\ everConnected = {}

InitRouterIdle ==
  /\ ended = FALSE
  /\ offlineQueue = NoQueue
  /\ hosts = <<>>
  /\ replacementHosts = <<>>
  /\ ring = NullRing
  /\ servers = {}
  /\ discovery = "none"
  /\ config = [hosts |-> <<>>, replacementHosts |-> <<>>]

(* ------------------------------- SpecKey ------------------------------ *)

InitKey ==
  /\ probeKey \in AllKeys
  /\ probeOut = <<>>
  /\ probeDone = FALSE
  /\ InitConn /\ InitHandles /\ InitRouterIdle /\ InitReady
  /\ sock = [h \in Hosts |-> "none"]
  /\ clientErrors = {}
  /\ uncaught = FALSE
  /\ step = NoStep

\* serverNameForKey(key) up to the ring lookup.
ProbeServerNameForKey ==
  /\ ~probeDone
  /\ probeOut' = HashKeyOf(probeKey)
  /\ probeDone' = TRUE
  /\ step' = StepOf("serverNameForKey", "")
  /\ UNCHANGED <<probeKey, readyVars, connVars, handleVars, routerVars, clientErrors, uncaught>>

NextKey == ProbeServerNameForKey

SpecKey == InitKey /\ [][NextKey]_vars

(* ----------------------------- Connection ----------------------------- *)

\* An entry of Connection.handlers: a {resolve, reject} pair, or (fn) a
\* callback function.
Handler(id, fn) == [id |-> id, fn |-> fn]
IdsOf(hq) == [i \in DOMAIN hq |-> hq[i].id]

\* States of the socket in which stream.write() puts bytes on the wire.
Writable == {"connecting", "open"}

\* this.handlers.push(handler), line 61.
HandlersAfterWrite(hq, id, fn) == Append(hq, Handler(id, fn))

\* stream.write(command), lines 63-83: the frame reaches the server only on
\* a socket that is open or about to be.
WireAfterWrite(s, w, id) == IF s \in Writable THEN Append(w, id) ELSE w

\* write(cmd, pack, handler) by a caller that holds the Connection.
Write(h, fn) ==
  /\ sock[h] # "none"
  /\ nextHandle <= MaxCmds
  /\ handlers' = [handlers EXCEPT ![h] = HandlersAfterWrite(@, nextHandle, fn)]
  /\ wire' = [wire EXCEPT ![h] = WireAfterWrite(sock[h], @, nextHandle)]
  /\ outcome' = [outcome EXCEPT ![nextHandle] = "written"]
  /\ nextHandle' = nextHandle + 1
  /\ step' = [StepOf("write", h) EXCEPT !.id = nextHandle]
  /\ UNCHANGED <<connected, reconnecting, connEnded, timers, reader, sock>>
  /\ UNCHANGED <<calls, repliedBy, probeVars, readyVars, routerVars, clientErrors, uncaught>>

\* Line 148: the guard of _connectionLost.
LostIgnored(e, r) == e \/ r

\* Lines 153-156: the position of the first callback function in the queue
\* (0: none). Its handler.reject is undefined, so the call at line 155
\* throws a TypeError there and the loop goes no further.
FirstFn(hq) ==
  IF \E i \in DOMAIN hq : hq[i].fn THEN Min({i \in DOMAIN hq : hq[i].fn}) ELSE 0

\* Lines 153-156: the handles the loop notifies.
LostNotified(hq) ==
  {hq[i].id : i \in {j \in DOMAIN hq : FirstFn(hq) = 0 \/ j <= FirstFn(hq)}}

\* Lines 157-165 run only when the loop did not throw.
LostThrows(hq) == FirstFn(hq) # 0

\* _connectionLost(reason), lines 147-166.
ConnectionLost(h) ==
  IF LostIgnored(connEnded[h], reconnecting[h])
  THEN UNCHANGED <<connected, reconnecting, handlers, timers, outcome, calls, uncaught>>
  ELSE /\ connected' = [connected EXCEPT ![h] = FALSE]
       /\ reconnecting' = [reconnecting EXCEPT ![h] = TRUE]
       /\ outcome' = [id \in HandleIds |->
                        IF id \in LostNotified(handlers[h]) THEN "lost" ELSE outcome[id]]
       /\ calls' = [id \in HandleIds |->
                        IF id \in LostNotified(handlers[h]) THEN calls[id] + 1 ELSE calls[id]]
       /\ IF LostThrows(handlers[h])
          THEN /\ uncaught' = TRUE
               /\ UNCHANGED <<handlers, timers>>
          ELSE /\ handlers' = [handlers EXCEPT ![h] = <<>>]
               /\ timers' = [timers EXCEPT ![h] = @ + 1]
               /\ UNCHANGED uncaught

LossStep(op, h) ==
  [StepOf(op, h) EXCEPT !.passed = ~LostIgnored(connEnded[h], reconnecting[h])]

\* stream 'close', line 113.
StreamClose(h) ==
  /\ sock[h] \in {"errored", "gotEnd", "destroyed"}
  /\ sock' = [sock EXCEPT ![h] = "closed"]
  /\ wire' = [wire EXCEPT ![h] = <<>>]
  /\ ConnectionLost(h)
  /\ step' = LossStep("close", h)
  /\ UNCHANGED <<connEnded, reader, nextHandle, repliedBy>>
  /\ UNCHANGED <<probeVars, readyVars, routerVars, clientErrors>>

\* stream 'end' (the peer closed its side), line 114.
StreamEnd(h) ==
  /\ sock[h] \in {"open", "ending"}
  /\ sock' = [sock EXCEPT ![h] = "gotEnd"]
  /\ wire' = [wire EXCEPT ![h] = <<>>]
  /\ ConnectionLost(h)
  /\ step' = LossStep("end", h)
  /\ UNCHANGED <<connEnded, reader, nextHandle, repliedBy>>
  /\ UNCHANGED <<probeVars, readyVars, routerVars, clientErrors>>

\* stream 'error', lines 115-118.
StreamError(h) ==
  /\ sock[h] \in {"connecting", "connectingFin", "open", "ending"}
  /\ sock' = [sock EXCEPT ![h] = "errored"]
  /\ wire' = [wire EXCEPT ![h] = <<>>]
  /\ clientErrors' = clientErrors \cup {"CONNECTION_FAILED"}
  /\ ConnectionLost(h)
  /\ step' = LossStep("error", h)
  /\ UNCHANGED <<connEnded, reader, nextHandle, repliedBy>>
  /\ UNCHANGED <<probeVars, readyVars, routerVars>>

\* The reconnect timer's callback, lines 162-165. The retry delay outlasts
\* the socket's teardown: the timer fires on a closed socket.
TimerFire(h) ==
  /\ timers[h] > 0
  /\ sock[h] = "closed"
  /\ timers' = [timers EXCEPT ![h] = @ - 1]
  /\ reconnecting' = [reconnecting EXCEPT ![h] = FALSE]
  /\ sock' = [sock EXCEPT ![h] = "connecting"]
  /\ wire' = [wire EXCEPT ![h] = <<>>]
  /\ step' = StepOf("timer", h)
  /\ UNCHANGED <<handlers, connected, connEnded, reader>>
  /\ UNCHANGED <<handleVars, probeVars, readyVars, routerVars, clientErrors, uncaught>>

\* The handler of stream 'connect', lines 107-111.
ConnectEvent(h) ==
  /\ sock[h] \in {"connecting", "connectingFin"}
  /\ sock' = [sock EXCEPT ![h] = IF @ = "connecting" THEN "open" ELSE "ending"]
  /\ connected' = [connected EXCEPT ![h] = TRUE]
  /\ reader' = [reader EXCEPT ![h] = <<>>]
  /\ UNCHANGED <<handlers, reconnecting, connEnded, timers, wire>>
  /\ UNCHANGED <<handleVars, probeVars, routerVars, clientErrors, uncaught>>

\* stream 'connect' on a Connection no Server listens to.
StreamConnect(h) ==
  /\ ConnectEvent(h)
  /\ step' = StepOf("connect", h)
  /\ UNCHANGED readyVars

\* stream.end() on a socket in state s, line 93.
SockAfterEnd(s) ==
  CASE s = "open" -> "ending"
    [] s = "connecting" -> "connectingFin"
    [] OTHER -> s

\* clearTimeout(this._retryTimer), line 98.
TimersAfterClear(t) == IF t > 0 THEN t - 1 ELSE 0

\* end() of the Connections of the hosts in S, lines 90-99.
ConnEndAll(S) ==
  /\ sock' = [h \in Hosts |->
               IF h \in S /\ ~connEnded[h] THEN SockAfterEnd(sock[h]) ELSE sock[h]]
  /\ connEnded' = [h \in Hosts |-> connEnded[h] \/ h \in S]
  /\ connected' = [h \in Hosts |->
               IF h \in S /\ ~connEnded[h] THEN FALSE ELSE connected[h]]
  /\ timers' = [h \in Hosts |->
               IF h \in S /\ ~connEnded[h] THEN TimersAfterClear(timers[h]) ELSE timers[h]]

\* end() by a caller that holds the Connection.
ConnEnd(h) ==
  /\ sock[h] # "none"
  /\ ConnEndAll({h})
  /\ step' = [StepOf("connEnd", h) EXCEPT !.passed = ~connEnded[h]]
  /\ UNCHANGED <<handlers, reconnecting, reader, wire>>
  /\ UNCHANGED <<handleVars, probeVars, readyVars, routerVars, clientErrors, uncaught>>

ReplyKinds == {"ok", "err"}

\* reader.feed(data), line 121: the chunk holds the replies to the first k
\* commands on the wire, and after them (garbage) bytes no reply starts with.
Fed(buf, w, k, kinds, garbage) ==
  buf \o [i \in 1..k |-> [to |-> w[i], kind |-> kinds[i]]]
      \o (IF garbage THEN <<[to |-> 0, kind |-> "bad"]>> ELSE <<>>)

\* How many replies one 'data' event takes out of the decoder, lines
\* 123-131: reader.get() is called once.
GetsPerData(buf) == IF buf = <<>> THEN 0 ELSE 1

\* stream 'data', lines 120-138.
Data(h, k, kinds, garbage) ==
  LET buf == Fed(reader[h], wire[h], k, kinds, garbage)
      n == GetsPerData(buf)
  IN
  /\ sock[h] \in {"open", "ending"}
  /\ k \in 0..Len(wire[h])
  /\ \A i \in DOMAIN reader[h] : reader[h][i].kind # "bad"
  /\ step' = [StepOf("data", h) EXCEPT !.n = k,
                !.passed = (n > 0 /\ buf[1].kind = "bad")]
  /\ UNCHANGED <<connected, reconnecting, connEnded, timers, nextHandle>>
  /\ UNCHANGED <<probeVars, readyVars, routerVars, clientErrors>>
  /\ IF n = 0
     THEN /\ reader' = [reader EXCEPT ![h] = buf]
          /\ wire' = [wire EXCEPT ![h] = SubSeq(@, k + 1, Len(@))]
          /\ UNCHANGED <<handlers, sock, outcome, calls, repliedBy, uncaught>>
     ELSE IF buf[1].kind = "bad"
     THEN \* lines 126-128: the parser throws; the socket is destroyed
          /\ reader' = [reader EXCEPT ![h] = buf]
          /\ sock' = [sock EXCEPT ![h] = "destroyed"]
          /\ wire' = [wire EXCEPT ![h] = <<>>]
          /\ UNCHANGED <<handlers, outcome, calls, repliedBy, uncaught>>
     ELSE /\ reader' = [reader EXCEPT ![h] = Tail(buf)]
          /\ wire' = [wire EXCEPT ![h] = SubSeq(@, k + 1, Len(@))]
          /\ UNCHANGED sock
          /\ IF handlers[h] = <<>>
             THEN \* handlers.shift() is undefined: lines 135-137 throw
                  /\ uncaught' = TRUE
                  /\ UNCHANGED <<handlers, outcome, calls, repliedBy>>
             ELSE LET hd == Head(handlers[h]) IN
                  /\ handlers' = [handlers EXCEPT ![h] = Tail(@)]
                  /\ IF buf[1].kind = "err" /\ hd.fn
                     THEN \* line 135: a function has no reject
                          /\ uncaught' = TRUE
                          /\ UNCHANGED <<outcome, calls, repliedBy>>
                     ELSE /\ outcome' = [outcome EXCEPT ![hd.id] =
                                           IF buf[1].kind = "err" THEN "replyErr" ELSE "ok"]
                          /\ calls' = [calls EXCEPT ![hd.id] = @ + 1]
                          /\ repliedBy' = [repliedBy EXCEPT ![hd.id] = buf[1].to]
                          /\ UNCHANGED uncaught

(* ------------------------------ SpecConn ------------------------------ *)

\* The host of the Connection SpecConn drives.
ConnHost == "A"

InitOneConn ==
  /\ InitConn /\ InitHandles /\ InitProbeIdle /\ InitRouterIdle /\ InitReady
  /\ sock = [h \in Hosts |-> IF h = ConnHost THEN "connecting" ELSE "none"]
  /\ clientErrors = {}
  /\ uncaught = FALSE
  /\ step = NoStep

NextConn ==
  \/ \E fn \in BOOLEAN : Write(ConnHost, fn)
  \/ ConnEnd(ConnHost)
  \/ StreamConnect(ConnHost)
  \/ StreamClose(ConnHost)
  \/ StreamEnd(ConnHost)
  \/ StreamError(ConnHost)
  \/ TimerFire(ConnHost)
  \/ \E k \in 0..MaxCmds, garbage \in BOOLEAN :
       \E kinds \in [1..k -> ReplyKinds] : Data(ConnHost, k, kinds, garbage)

SpecConn == InitOneConn /\ [][NextConn]_vars

(* ---------------------------- ServerManager --------------------------- *)

\* The keys callers address commands to.
RouterKeys == {<<"a">>, <<"b">>, <<"b", "{", "a", "}">>}

\* The argument lists callers submit: none, one key, one key in an array.
UserArgs ==
  {<<>>} \cup {<<Str(k)>> : k \in RouterKeys} \cup {<<Arr(<<k>>)>> : k \in {<<"b">>}}

\* The argument of setup()'s sendCommand('KEYS', 'RDN_*'), line 210.
TablePattern == <<"RDN_*">>

\* The host configurations a resolver yields: distinct identities, the
\* replacement hosts not among the hosts.
Configs ==
  {[hosts |-> hs, replacementHosts |-> rs] :
     hs \in {<<"A">>, <<"A", "B">>}, rs \in {<<>>, <<"C">>}}

\* replacementOf of addServer(host) called with one argument.
NoHost == ""

\* A host identity as the string serverNameForKey is given, line 116.
IdString(id) == <<id>>

\* Line 111: a single array argument is the argument list.
Unwrap(argv) ==
  IF Len(argv) = 1 /\ argv[1].t = "arr"
  THEN [i \in DOMAIN argv[1].a |-> Str(argv[1].a[i])]
  ELSE argv

\* String(args[command.key]), line 118.
KeyArg(argv, d) ==
  IF d.key + 1 \in DOMAIN argv THEN StringOf(argv[d.key + 1]) ELSE Undefined

\* sendToServer(name, ...), lines 156-162: the server, or the rejection.
SendToServer(srv, name) ==
  IF name \in srv THEN [kind |-> "server", name |-> name]
  ELSE [kind |-> "unresolved", name |-> name]

\* Route with the key-addressed policy tried before the single-shard one.
Route_KeyFirst(r, srv, cmd, argv) ==
  LET d == Descriptor(cmd)
      a == Unwrap(argv)
  IN  IF d.present /\ d.supported
      THEN IF d.router THEN [kind |-> "custom", name |-> NoServer]
           ELSE IF d.hasKey
           THEN SendToServer(srv, ServerNameForKey(r, KeyArg(a, d)))
           ELSE [kind |-> "unsupported", name |-> NoServer]
      ELSE [kind |-> "unsupported", name |-> NoServer]

\* Route without the test of command.supported.
Route_IgnoresSupported(r, srv, cmd, argv) ==
  LET d == Descriptor(cmd)
      a == Unwrap(argv)
  IN  IF d.present
      THEN IF d.router THEN [kind |-> "custom", name |-> NoServer]
           ELSE IF Len(r.members) = 1
           THEN SendToServer(srv, ServerNameForKey(r, IdString(r.members[1])))
           ELSE IF d.hasKey
           THEN SendToServer(srv, ServerNameForKey(r, KeyArg(a, d)))
           ELSE [kind |-> "unsupported", name |-> NoServer]
      ELSE [kind |-> "unsupported", name |-> NoServer]

\* Lines 113-121: the policy applied to a command once it is neither refused
\* as ended nor queued.
Route(r, srv, cmd, argv) ==
  LET d == Descriptor(cmd)
      a == Unwrap(argv)
  IN  IF d.present /\ d.supported
      THEN IF d.router THEN [kind |-> "custom", name |-> NoServer]
           ELSE IF Len(r.members) = 1
           THEN SendToServer(srv, ServerNameForKey(r, IdString(r.members[1])))
           ELSE IF d.hasKey
           THEN SendToServer(srv, ServerNameForKey(r, KeyArg(a, d)))
           ELSE [kind |-> "unsupported", name |-> NoServer]
      ELSE [kind |-> "unsupported", name |-> NoServer]

\* Dispatch without the test of this.ended.
Dispatch_NoEndedTest(e, oq, r, srv, cmd, argv) ==
  IF oq.exists THEN [kind |-> "queue", name |-> NoServer]
  ELSE Route(r, srv, cmd, argv)

\* sendCommand(cmd, ...args), lines 103-123: what becomes of the command.
Dispatch(e, oq, r, srv, cmd, argv) ==
  IF e THEN [kind |-> "ended", name |-> NoServer]
  ELSE IF oq.exists THEN [kind |-> "queue", name |-> NoServer]
  ELSE Route(r, srv, cmd, argv)

\* The handles and the transports' queues, as one value W that a sequence
\* of submissions threads through.
World(hq, w, o, c) == [handlers |-> hq, wire |-> w, outcome |-> o, calls |-> c]

\* Server.sendCommand(cmd, args, next): the Server hands the command and the
\* handle to its Connection's write.
ServerSendCommand(W, sk, name, id) ==
  [W EXCEPT !.handlers[name] = HandlersAfterWrite(@, id, FALSE),
            !.wire[name] = WireAfterWrite(sk[name], @, id),
            !.outcome[id] = "written"]

\* The promise of one sendCommand call settled, or handed on, as Dispatch
\* decides (a queued command is pushed by the caller of Settle).
Settle(W, sk, dec, id) ==
  CASE dec.kind = "server" -> ServerSendCommand(W, sk, dec.name, id)
    [] dec.kind = "custom" -> [W EXCEPT !.outcome[id] = "custom"]
    [] dec.kind = "queue"  -> [W EXCEPT !.outcome[id] = "queued"]
    [] OTHER -> [W EXCEPT !.outcome[id] = dec.kind, !.calls[id] = @ + 1]

\* offlineQueue.push(cmd, args, {resolve, reject}), line 109.
QueuePush(oq, cmd, argv, id) ==
  [oq EXCEPT !.items = Append(@, <<cmd, argv, id>>)]

\* The rest parameter of sendCommand(...entry), lines 103 and 236: the
\* entry's argument list and its handle arrive as two arguments.
SpreadArgs(entry) ==
  <<Arr([i \in DOMAIN entry[2] |-> StringOf(entry[2][i])]), Obj(entry[3])>>

\* Lines 232-237: each drained entry goes through sendCommand, which makes
\* a promise of its own (FreshOf) for it.
RECURSIVE Resubmit(_, _, _, _, _, _)
Resubmit(W, sk, entries, e, r, srv) ==
  IF entries = <<>> THEN W
  ELSE LET entry == Head(entries)
           dec == Dispatch(e, NoQueue, r, srv, entry[1], SpreadArgs(entry))
       IN  Resubmit(Settle(W, sk, dec, FreshOf(entry[3])), sk, Tail(entries), e, r, srv)

\* addServer that adds the host to the ring whether or not it replaces one.
RingAfterAddServer_AlwaysAdd(r, host, replacementOf) == RingAdd(r, host)

\* addServer(host, replacementOf), lines 257-262: the ring afterwards.
RingAfterAddServer(r, host, replacementOf) ==
  IF replacementOf # NoHost THEN RingReplace(r, replacementOf, host)
  ELSE RingAdd(r, host)

\* addServer that creates the Server and leaves it out of client.servers.
ServersAfterAddServer_Forget(srv, host) == srv

\* addServer, line 259: client.servers afterwards.
ServersAfterAddServer(srv, host) == srv \cup {host}

\* Lines 228-230: a fresh ring with every host added.
RECURSIVE RingOfHosts(_, _)
RingOfHosts(r, hs) ==
  IF hs = <<>> THEN r
  ELSE RingOfHosts(RingAfterAddServer(r, Head(hs), NoHost), Tail(hs))

\* new Server(client, manager, host): a fresh Connection for each host of S.
ResetFor(f, S, v) == [h \in Hosts |-> IF h \in S THEN v ELSE f[h]]

\* The Connection fields no ServerManager operation changes.
ConnFlagsUnchanged == UNCHANGED <<connected, reconnecting, connEnded, timers, reader>>

\* connect(hostconfig), lines 222-238.
Connect(cfg) ==
  LET hs == hosts \o cfg.hosts
      new == Range(hs)
      r == RingOfHosts(FreshRing, hs)
      srv == servers \cup new
      sk == ResetFor(sock, new, "connecting")
      W0 == World(ResetFor(handlers, new, <<>>), ResetFor(wire, new, <<>>), outcome, calls)
      W == IF offlineQueue.exists
           THEN Resubmit(W0, sk, offlineQueue.items, ended, r, srv)
           ELSE W0
  IN  /\ hosts' = hs
      /\ replacementHosts' = replacementHosts \o cfg.replacementHosts
      /\ ring' = r
      /\ servers' = srv
      /\ sock' = sk
      /\ offlineQueue' = NoQueue
      /\ handlers' = W.handlers
      /\ wire' = W.wire
      /\ outcome' = W.outcome
      /\ calls' = W.calls
      /\ connected' = ResetFor(connected, new, FALSE)
      /\ reconnecting' = ResetFor(reconnecting, new, FALSE)
      /\ connEnded' = ResetFor(connEnded, new, FALSE)
      /\ timers' = ResetFor(timers, new, 0)
      /\ reader' = ResetFor(reader, new, <<>>)

\* The discovery callback with a result, lines 80-87.
DiscoverySuccess ==
  /\ discovery = "pending"
  /\ discovery' = "done"
  /\ Connect(config)
  /\ step' = StepOf("discovered", "")
  /\ UNCHANGED <<ended, config, nextHandle, repliedBy, probeVars, readyVars, clientErrors, uncaught>>

\* offlineQueue.flush(reason): every queued handle is rejected.
Flushed(o, oq) ==
  [id \in HandleIds |-> IF \E i \in DOMAIN oq.items : oq.items[i][3] = id THEN "flushed" ELSE o[id]]

FlushedCalls(c, oq) ==
  [id \in HandleIds |-> IF \E i \in DOMAIN oq.items : oq.items[i][3] = id THEN c[id] + 1 ELSE c[id]]

\* end() that ends the Servers and leaves the offline queue as it is.
End_KeepsQueue ==
  /\ ConnEndAll(servers)
  /\ UNCHANGED <<outcome, calls, offlineQueue>>
  /\ ended' = TRUE

\* end(), lines 168-178; Server.end() ends the Server's Connection.
End ==
  /\ ConnEndAll(servers)
  /\ outcome' = Flushed(outcome, offlineQueue)
  /\ calls' = FlushedCalls(calls, offlineQueue)
  /\ offlineQueue' = NoQueue
  /\ ended' = TRUE

\* end() called by the application.
RouterEnd ==
  /\ discovery # "none" \/ ring.built
  /\ End
  /\ step' = [StepOf("routerEnd", "") EXCEPT !.passed = ~ended]
  /\ UNCHANGED <<handlers, reconnecting, reader, wire, nextHandle, repliedBy>>
  /\ UNCHANGED <<hosts, replacementHosts, ring, servers, discovery, config>>
  /\ UNCHANGED <<probeVars, readyVars, clientErrors, uncaught>>

\* The discovery callback with an error, lines 81-84.
DiscoveryFail ==
  /\ discovery = "pending"
  /\ discovery' = "failed"
  /\ clientErrors' = clientErrors \cup {"DISCOVERY_FAILED"}
  /\ End
  /\ step' = StepOf("discoveryFailed", "")
  /\ UNCHANGED <<handlers, reconnecting, reader, wire, nextHandle, repliedBy>>
  /\ UNCHANGED <<hosts, replacementHosts, ring, servers, config>>
  /\ UNCHANGED <<probeVars, readyVars, uncaught>>

\* sendCommand(cmd, ...args) called by the application, lines 103-123.
SendCommand(cmd, argv) ==
  LET id == nextHandle
      dec == Dispatch(ended, offlineQueue, ring, servers, cmd, argv)
      W == Settle(World(handlers, wire, outcome, calls), sock, dec, id)
  IN  /\ discovery # "none" \/ ring.built
      /\ nextHandle <= MaxCmds
      /\ nextHandle' = nextHandle + 1
      /\ offlineQueue' = IF dec.kind = "queue" THEN QueuePush(offlineQueue, cmd, argv, id)
                         ELSE offlineQueue
      /\ handlers' = W.handlers
      /\ wire' = W.wire
      /\ outcome' = W.outcome
      /\ calls' = W.calls
      /\ step' = [StepOf("sendCommand", dec.name) EXCEPT !.cmd = cmd, !.argv = argv, !.id = id]
      /\ ConnFlagsUnchanged
      /\ UNCHANGED <<sock, repliedBy, probeVars, readyVars, clientErrors, uncaught>>
      /\ UNCHANGED <<ended, hosts, replacementHosts, ring, servers, discovery, config>>

\* The listener's last line with the test of the map left out.
ErrorsAfterRemove_Always(errs, srv) == errs \cup {"NO_CONNECTIONS"}

\* Line 207: NO_CONNECTIONS is emitted when client.servers has no key left.
ErrorsAfterRemove(errs, srv) ==
  IF srv = {} THEN errs \cup {"NO_CONNECTIONS"} ELSE errs

\* The serverRemove listener, lines 197-208, for the Server of host h.
ServerRemove(h) ==
  LET promote == replacementHosts # <<>>
      nhost == Head(replacementHosts)
      left == servers \ {h}
      srv == IF promote THEN ServersAfterAddServer(left, nhost) ELSE left
      new == IF promote THEN {nhost} ELSE {}
  IN  /\ h \in servers
      /\ servers' = srv
      /\ replacementHosts' = IF promote THEN Tail(replacementHosts) ELSE replacementHosts
      /\ ring' = IF promote THEN RingAfterAddServer(ring, nhost, h) ELSE RingRemove(ring, h)
      /\ clientErrors' = ErrorsAfterRemove(clientErrors, srv)
      /\ sock' = ResetFor(sock, new, "connecting")
      /\ handlers' = ResetFor(handlers, new, <<>>)
      /\ wire' = ResetFor(wire, new, <<>>)
      /\ connected' = ResetFor(connected, new, FALSE)
      /\ reconnecting' = ResetFor(reconnecting, new, FALSE)
      /\ connEnded' = ResetFor(connEnded, new, FALSE)
      /\ timers' = ResetFor(timers, new, 0)
      /\ reader' = ResetFor(reader, new, <<>>)
      /\ step' = [StepOf("serverRemove", h) EXCEPT !.passed = promote]
      /\ UNCHANGED <<ended, offlineQueue, hosts, discovery, config>>
      /\ UNCHANGED <<handleVars, probeVars, readyVars, uncaught>>

\* The constructor with a host list, lines 88-94: connect(), then setup()'s
\* sendCommand('KEYS', 'RDN_*').
InitStatic(cfg) ==
  LET r == RingOfHosts(FreshRing, cfg.hosts)
      srv == Range(cfg.hosts)
      sk == [h \in Hosts |-> IF h \in srv THEN "connecting" ELSE "none"]
      W0 == World([h \in Hosts |-> <<>>], [h \in Hosts |-> <<>>],
                  [id \in HandleIds |-> "none"], [id \in HandleIds |-> 0])
      W == Settle(W0, sk, Dispatch(FALSE, NoQueue, r, srv, "KEYS", <<Str(TablePattern)>>), 1)
  IN  /\ hosts = cfg.hosts
      /\ replacementHosts = cfg.replacementHosts
      /\ ring = r
      /\ servers = srv
      /\ sock = sk
      /\ offlineQueue = NoQueue
      /\ discovery = "none"
      /\ config = cfg
      /\ handlers = W.handlers /\ wire = W.wire /\ outcome = W.outcome /\ calls = W.calls

\* The constructor with a discovery function, lines 77-87 and 94: the offline
\* queue exists and takes setup()'s sendCommand('KEYS', 'RDN_*').
InitDiscovery(cfg) ==
  /\ hosts = <<>>
  /\ replacementHosts = <<>>
  /\ ring = NullRing
  /\ servers = {}
  /\ sock = [h \in Hosts |-> "none"]
  /\ offlineQueue = QueuePush([exists |-> TRUE, items |-> <<>>], "KEYS", <<Str(TablePattern)>>, 1)
  /\ discovery = "pending"
  /\ config = cfg
  /\ handlers = [h \in Hosts |-> <<>>]
  /\ wire = [h \in Hosts |-> <<>>]
  /\ outcome = [id \in HandleIds |-> IF id = 1 THEN "queued" ELSE "none"]
  /\ calls = [id \in HandleIds |-> 0]

Init ==
  /\ \E cfg \in Configs : InitStatic(cfg) \/ InitDiscovery(cfg)
  /\ ended = FALSE
  /\ nextHandle = 2
  /\ repliedBy = [id \in HandleIds |-> 0]
  /\ connected = [h \in Hosts |-> FALSE]
  /\ reconnecting = [h \in Hosts |-> FALSE]
  /\ connEnded = [h \in Hosts |-> FALSE]
  /\ timers = [h \in Hosts |-> 0]
  /\ reader = [h \in Hosts |-> <<>>]
  /\ InitProbeIdle
  /\ InitReady
  /\ clientErrors = {}
  /\ uncaught = FALSE
  /\ step = NoStep

Next ==
  \/ \E cmd \in CmdNames, argv \in UserArgs : SendCommand(cmd, argv)
  \/ DiscoverySuccess
  \/ DiscoveryFail
  \/ \E h \in Hosts : ServerRemove(h)
  \/ RouterEnd

Spec == Init /\ [][Next]_vars

(* ------------------------------ SpecReady ----------------------------- *)

\* connectCounter, lines 187-191, and the once-listener of 'ready', lines
\* 193-196, which removes connectCounter.
ConnectCounter ==
  IF readyListening
  THEN /\ readyCount' = readyCount + 1
       /\ IF readyCount + 1 = Len(hosts)
          THEN /\ readyEmits' = readyEmits + 1
               /\ readyListening' = FALSE
          ELSE UNCHANGED <<readyEmits, readyListening>>
  ELSE UNCHANGED <<readyCount, readyEmits, readyListening>>

\* stream 'connect' on the Connection of a Server: the Server raises
\* serverConnect on the client for it.
ServerConnect(h) ==
  /\ h \in servers
  /\ ConnectEvent(h)
  /\ ConnectCounter
  /\ everConnected' = everConnected \cup {h}
  /\ step' = StepOf("serverConnect", h)

\* The manager with the Connections of its Servers connecting, failing and
\* reconnecting.
NextReady ==
  \/ DiscoverySuccess
  \/ \E h \in Hosts : ServerConnect(h)
  \/ \E h \in Hosts : StreamError(h)
  \/ \E h \in Hosts : StreamClose(h)
  \/ \E h \in Hosts : TimerFire(h)

SpecReady == Init /\ [][NextReady]_vars

(* ------------------------- C1: hash-tag extraction --------------------- *)

\* The extraction as stated: the non-empty substring strictly between the
\* first "{" and the first "}" after it, and the whole string otherwise.
StatedHashKey(k) ==
  IF IndexesOf(k, "{") = {} THEN k
  ELSE LET i == Min(IndexesOf(k, "{"))
           closing == {j \in IndexesOf(k, "}") : j > i}
       IN  IF closing = {} \/ Min(closing) = i + 1 THEN k
           ELSE SubSeq(k, i + 1, Min(closing) - 1)

FooBarBaz == <<"f", "o", "o", "{", "b", "a", "r", "}", "b", "a", "z">>
FooEmpty == <<"f", "o", "o", "{", "}">>
PlainKey == <<"p", "l", "a", "i", "n", "k", "e", "y">>
FirstTagWins == <<"a", "{", "b", "}", "{", "c", "}">>

\* C1: for every key, serverNameForKey hashes the non-empty substring between
\* the first "{" and the first "}" after it when there is one, and the whole
\* key otherwise; "foo{bar}baz" hashes "bar", "a{b}{c}" hashes "b", "plainkey"
\* hashes itself and the empty tag "foo{}" hashes the whole "foo{}".
C1_HashTag ==
  probeDone =>
    /\ probeOut = StatedHashKey(probeKey)
    /\ HashKeyOf(FooBarBaz) = <<"b", "a", "r">>
    /\ HashKeyOf(FirstTagWins) = <<"b">>
    /\ HashKeyOf(PlainKey) = PlainKey
    /\ (probeKey = <<"a", "{", "}">> => HashKeyOf(FooEmpty) = FooEmpty)

\* The three examples of C1 that do not have an empty tag.
C1_OtherExamples ==
  /\ HashKeyOf(FooBarBaz) = <<"b", "a", "r">>
  /\ HashKeyOf(FirstTagWins) = <<"b">>
  /\ HashKeyOf(PlainKey) = PlainKey

\* Apart from an empty tag, the code extracts what C1 states.
C1_NonEmptyTag ==
  (probeDone /\ probeOut # <<>>) => probeOut = StatedHashKey(probeKey)

(* --------------------------- Connection claims ------------------------ *)

LossOps == {"close", "end", "error"}

\* The handles of h's pending queue are, in order, those of the replies the
\* decoder holds followed by those of the commands still on the wire: every
\* pending handle was written on this socket and none was answered out of turn.
Aligned(h) ==
  /\ \A i \in DOMAIN reader[h] : reader[h][i].kind # "bad"
  /\ IdsOf(handlers[h]) = [i \in DOMAIN reader[h] |-> reader[h][i].to] \o wire[h]

\* C2: on a connected transport whose N pending handles (resolve/reject
\* pairs) were written with no reply in between, once a data event has fed the
\* last of the N replies, whatever the split into chunks, all N handles are
\* settled, each by the reply to its own command.
C2_FifoAllSettled ==
  [][\A h \in Hosts :
       ( /\ step'.op = "data" /\ step'.host = h
         /\ sock[h] = "open" /\ sock'[h] = "open"
         /\ Aligned(h)
         /\ \A i \in DOMAIN handlers[h] : ~handlers[h][i].fn
         /\ \A i \in DOMAIN reader'[h] : reader'[h][i].kind # "bad"
         /\ wire'[h] = <<>> )
       => /\ handlers'[h] = <<>>
          /\ \A i \in DOMAIN handlers[h] :
               repliedBy'[handlers[h][i].id] = handlers[h][i].id]_vars

\* What the code does keep of C2: a reply a data event delivers goes to the
\* oldest pending handle, which is the handle of the command it answers.
C2_OrderKept ==
  [][\A h \in Hosts :
       ( /\ step'.op = "data" /\ step'.host = h
         /\ Aligned(h)
         /\ handlers'[h] # handlers[h] )
       => /\ handlers'[h] = Tail(handlers[h])
          /\ \A id \in HandleIds :
               repliedBy'[id] # repliedBy[id] => (id = handlers[h][1].id /\ repliedBy'[id] = id)]_vars

\* C3: a loss signal (close, end or error) that reaches a transport neither
\* ended nor reconnecting notifies every handle of the pending queue, pair or
\* callback function, exactly once of the connection loss, empties the queue
\* and arms a reconnect timer.
C3_LossRejectsAll ==
  [][\A h \in Hosts :
       (step'.op \in LossOps /\ step'.host = h /\ step'.passed)
       => /\ \A i \in DOMAIN handlers[h] :
               /\ calls'[handlers[h][i].id] = calls[handlers[h][i].id] + 1
               /\ outcome'[handlers[h][i].id] = "lost"
          /\ handlers'[h] = <<>>
          /\ timers'[h] = timers[h] + 1]_vars

\* C4: of two loss signals in succession for one socket, the first reaching
\* a transport neither ended nor reconnecting, the second changes nothing, and
\* after both the pending handles have been rejected once (the queue is empty,
\* no handle was notified twice) and one reconnect timer is armed.
C4_LossIdempotent ==
  [][\A h \in Hosts :
       ( /\ step.op \in LossOps /\ step.host = h /\ step.passed
         /\ step'.op \in LossOps /\ step'.host = h )
       => /\ UNCHANGED <<handlers, timers, outcome, calls, connected, reconnecting, connEnded>>
          /\ handlers'[h] = <<>>
          /\ timers'[h] = 1
          /\ \A id \in HandleIds : calls'[id] <= 1]_vars

\* The part of C4 the guard of line 148 gives: a loss signal that finds the
\* transport reconnecting or ended changes no state of the transport.
C4_SecondIgnored ==
  [][\A h \in Hosts :
       (step'.op \in LossOps /\ step'.host = h /\ ~step'.passed)
       => UNCHANGED <<handlers, timers, outcome, calls, connected, reconnecting, connEnded>>]_vars

\* C10: end() on a transport with handles in its pending queue rejects them:
\* once the socket event that follows end() (end or close) has been handled,
\* no handle written before end() is left in the queue unsettled.
C10_EndRejectsPending ==
  [][\A h \in Hosts :
       ( /\ step.op = "connEnd" /\ step.host = h /\ step.passed
         /\ step'.op \in {"close", "end"} /\ step'.host = h )
       => /\ handlers'[h] = <<>>
          /\ \A i \in DOMAIN handlers[h] : calls'[handlers[h][i].id] >= 1]_vars


\* C4 on a queue of resolve/reject pairs only: without a callback function in
\* the queue the two signals reject once and arm one timer.
C4_PairsOnly ==
  [][\A h \in Hosts :
       ( /\ step.op \in LossOps /\ step.host = h /\ step.passed
         /\ step'.op \in LossOps /\ step'.host = h
         /\ ~uncaught )
       => /\ UNCHANGED <<handlers, timers, outcome, calls, connected, reconnecting, connEnded>>
          /\ handlers'[h] = <<>>
          /\ timers'[h] = 1
          /\ \A id \in HandleIds : calls'[id] <= 1]_vars


(* -------------------------- ServerManager claims ---------------------- *)

\* The command was submitted to a router that is attached and not ended.
Attached == ~ended /\ ~offlineQueue.exists /\ ring.built

\* C5: a command submitted while the offline queue exists reaches no transport
\* before the servers are attached, and once connect() has drained the queue
\* the result handle its caller holds has been handed to the routing policy:
\* it is no longer parked in a queue (in particular the handle of an
\* unsupported command has failed as unsupported).
C5_OfflineResubmit ==
  /\ offlineQueue.exists => \A h \in Hosts : handlers[h] = <<>> /\ wire[h] = <<>>
  /\ discovery = "done" => \A id \in UserHandles : outcome[id] # "queued"

\* The part of C5 that holds: nothing is written while the queue exists, and
\* connect() sends every drained entry through sendCommand.
C5_NothingBeforeAttach ==
  /\ offlineQueue.exists => \A h \in Hosts : handlers[h] = <<>> /\ wire[h] = <<>>
  /\ discovery = "done" =>
       \A id \in UserHandles : outcome[id] = "queued" => outcome[FreshOf(id)] \notin {"none", "queued"}

\* C6: serverRemove handled while a replacement host is queued leaves the
\* replacement's identity in the ring in place of the removed one, the removed
\* identity out of the ring, the member count unchanged, a transport for the
\* replacement and none for the removed host in the live-server map, and the
\* replacement queue one shorter.
C6_Replacement ==
  [][\A h \in Hosts :
       (step'.op = "serverRemove" /\ step'.host = h /\ replacementHosts # <<>>)
       => LET new == Head(replacementHosts) IN
          /\ h \in Range(ring.members)
          /\ \A i \in DOMAIN ring.members :
               ring'.members[i] = IF ring.members[i] = h THEN new ELSE ring.members[i]
          /\ h \notin Range(ring'.members)
          /\ Len(ring'.members) = Len(ring.members)
          /\ new \in servers' /\ sock'[new] = "connecting"
          /\ h \notin servers'
          /\ replacementHosts' = Tail(replacementHosts)]_vars

C6_Witness ==
  /\ step.op = "serverRemove" /\ step.passed /\ step.host = "A"
  /\ ring.members = <<"C", "B">>
  /\ servers = {"B", "C"}
  /\ replacementHosts = <<>>

\* C7: with exactly one ring member, a supported command is handed to its
\* custom router when it has one, and otherwise is written once on that
\* member's transport, whatever its arguments and with or without a key index.
C7_SingleShard ==
  [][( /\ step'.op = "sendCommand"
       /\ Attached
       /\ Len(ring.members) = 1
       /\ Descriptor(step'.cmd).present /\ Descriptor(step'.cmd).supported )
     => LET m == ring.members[1]
            id == step'.id
        IN  IF Descriptor(step'.cmd).router
            THEN outcome'[id] = "custom" /\ handlers' = handlers /\ wire' = wire
            ELSE /\ m \in servers
                 /\ handlers'[m] = Append(handlers[m], Handler(id, FALSE))
                 /\ wire'[m] = Append(wire[m], id)
                 /\ \A h \in Hosts \ {m} : handlers'[h] = handlers[h] /\ wire'[h] = wire[h]]_vars

C7_Witness ==
  /\ step.op = "sendCommand" /\ step.cmd = "PING" /\ step.argv = <<>>
  /\ ~ended /\ ring.members = <<"A">>
  /\ outcome[step.id] = "written"
  /\ \E i \in DOMAIN handlers["A"] : handlers["A"][i].id = step.id

\* C8: with two or more ring members, one supported key-addressed command
\* makes exactly one write, on the transport registered under the identity
\* the ring returns for the command's extracted shard key, and none elsewhere.
C8_OneWrite ==
  [][( /\ step'.op = "sendCommand"
       /\ Attached
       /\ Len(ring.members) >= 2
       /\ Descriptor(step'.cmd).present /\ Descriptor(step'.cmd).supported
       /\ ~Descriptor(step'.cmd).router /\ Descriptor(step'.cmd).hasKey )
     => LET key == KeyArg(Unwrap(step'.argv), Descriptor(step'.cmd))
            m == RingGetCached(ring, HashKeyOf(key))
            id == step'.id
        IN  /\ m \in servers
            /\ handlers'[m] = Append(handlers[m], Handler(id, FALSE))
            /\ wire'[m] = Append(wire[m], id)
            /\ \A h \in Hosts \ {m} : handlers'[h] = handlers[h] /\ wire'[h] = wire[h]]_vars

C8_Witness ==
  /\ step.op = "sendCommand" /\ step.cmd = "GET"
  /\ step.argv = <<Str(<<"b", "{", "a", "}">>)>>
  /\ ~ended /\ ring.members = <<"A", "B">>
  /\ IdsOf(handlers["B"]) = <<step.id>> /\ wire["B"] = <<step.id>>
  /\ handlers["A"] = <<>> /\ wire["A"] = <<>>

\* C9: once end() has run, every submit, of whatever command, fails with the
\* client-ended error, puts nothing into an offline queue and writes to no
\* transport.
C9_EndedRejects ==
  [][(step'.op = "sendCommand" /\ ended)
     => /\ outcome'[step'.id] = "ended"
        /\ calls'[step'.id] = 1
        /\ ~offlineQueue'.exists /\ offlineQueue' = offlineQueue
        /\ handlers' = handlers /\ wire' = wire]_vars

C9_Witness ==
  /\ step.op = "sendCommand" /\ step.cmd = "GET" /\ step.argv = <<Str(<<"a">>)>>
  /\ ended /\ servers = {"A", "B"}
  /\ outcome[step.id] = "ended"
  /\ \A h \in Hosts : handlers[h] = <<>>


(* ---------------------- C11: the ring and the live map ----------------- *)

\* C11: after the bootstrap and any sequence of server removals, with or
\* without a replacement promoted, the identities the ring holds are exactly
\* the identities client.servers has a Server for.
C11_RingMatchesServers == Range(ring.members) = servers

\* A removal that promoted a replacement was followed by one that found no
\* replacement left, and a server remains.
C11_Witness ==
  /\ step.op = "serverRemove" /\ ~step.passed
  /\ "C" \in servers
  /\ replacementHosts = <<>>
  /\ Len(hosts) = 2

(* -------------------- C12: the last server is removed ------------------ *)

\* A command the table routes by its key argument.
KeyAddressed(cmd) ==
  LET d == Descriptor(cmd) IN d.present /\ d.supported /\ ~d.router /\ d.hasKey

\* C12: a removal that leaves client.servers empty emits NO_CONNECTIONS on
\* the client and does not mark the manager ended; a removal that leaves a
\* server emits nothing; and a key-addressed command submitted to a manager
\* that is not ended and has no server left is rejected, once, on its own
\* handle with the unresolved-server error.
C12_NoConnections ==
  [][/\ step'.op = "serverRemove" =>
          /\ servers' = {} => "NO_CONNECTIONS" \in clientErrors'
          /\ servers' # {} => clientErrors' = clientErrors
          /\ ended' = ended
     /\ (/\ step'.op = "sendCommand"
         /\ Attached /\ servers = {}
         /\ "NO_CONNECTIONS" \in clientErrors
         /\ KeyAddressed(step'.cmd)) =>
          /\ outcome'[step'.id] = "unresolved"
          /\ calls'[step'.id] = 1
          /\ \A id \in HandleIds \ {step'.id} :
               outcome'[id] = outcome[id] /\ calls'[id] = calls[id]]_vars

\* The last server was removed from a manager that goes on, and a GET was
\* then refused as unresolved.
C12_Witness ==
  /\ step.op = "sendCommand" /\ step.cmd = "GET"
  /\ ~ended /\ servers = {}
  /\ "NO_CONNECTIONS" \in clientErrors
  /\ outcome[step.id] = "unresolved"

(* --------------------------- C13: end() -------------------------------- *)

\* The handles of the entries the offline queue holds.
QueuedIds(oq) == {oq.items[i][3] : i \in DOMAIN oq.items}

\* C13: end() ends the Connection of every Server in client.servers, rejects
\* the handle of every entry the offline queue holds, once, with the
\* terminal reason, deletes the offline queue and sets ended.
C13_EndSettlesQueue ==
  [][step'.op \in {"routerEnd", "discoveryFailed"} =>
       /\ \A h \in servers : connEnded'[h] /\ ~connected'[h]
       /\ \A id \in QueuedIds(offlineQueue) :
            outcome'[id] = "flushed" /\ calls'[id] = calls[id] + 1
       /\ ~offlineQueue'.exists
       /\ ended']_vars

\* end() ran while discovery was pending, with two commands in the offline
\* queue.
C13_Witness ==
  /\ step.op = "routerEnd" /\ step.passed
  /\ discovery = "pending"
  /\ outcome[1] = "flushed" /\ outcome[2] = "flushed"
  /\ ~offlineQueue.exists /\ ended

\* end() ran on an attached manager with two Servers.
C13_WitnessServers ==
  /\ step.op = "routerEnd" /\ step.passed
  /\ Cardinality(servers) = 2
  /\ \A h \in servers : connEnded[h]

(* ----------------------------- C14: ready ------------------------------ *)

\* C14: 'ready' is emitted at most once, and only when every host of the
\* resolved host list has connected.
C14_ReadyWhenAllConnected ==
  /\ readyEmits <= 1
  /\ readyEmits > 0 => Range(hosts) \subseteq everConnected

\* 'ready' is emitted at most once: its listener removes connectCounter.
C14_AtMostOnce == readyEmits <= 1

\* 'ready' is emitted when serverConnect was raised as many times as there
\* are hosts, whichever Servers raised it.
C14_CountsEvents ==
  /\ readyEmits > 0 => readyCount = Len(hosts)
  /\ readyListening => readyCount < Len(hosts) \/ hosts = <<>>

(* ---------------------- C15: an ended Connection ----------------------- *)

\* The operations C15 names: write, end() and the socket's connect, close,
\* end and error events, and the reconnect timer.
EndedOps == {"write", "connEnd", "connect", "close", "end", "error", "timer"}

\* C15: once end() has run on a Connection it stays ended: no reconnect
\* timer fires and no connection attempt is issued, connected stays false,
\* and writes, further end() calls and socket events leave its handlers, its
\* flags and its timer as they were.
C15_EndedAbsorbing ==
  [][\A h \in Hosts : (connEnded[h] /\ step'.host = h /\ step'.op \in EndedOps) =>
       /\ connEnded'[h]
       /\ step'.op # "timer"
       /\ sock'[h] = "connecting" => sock[h] = "connecting"
       /\ ~connected'[h]
       /\ handlers'[h] = handlers[h]
       /\ reconnecting'[h] = reconnecting[h]
       /\ timers'[h] = timers[h]]_vars

\* What does hold of an ended Connection: it stays ended, has no timer
\* armed, issues no connection attempt, and the loss signals and further
\* end() calls change neither its handlers nor its flags.
C15_NoReconnect ==
  [][\A h \in Hosts : (connEnded[h] /\ step'.host = h /\ step'.op \in EndedOps) =>
       /\ connEnded'[h]
       /\ step'.op # "timer"
       /\ sock'[h] = "connecting" => sock[h] = "connecting"
       /\ timers[h] = 0 /\ timers'[h] = 0
       /\ reconnecting'[h] = reconnecting[h]
       /\ step'.op \in LossOps \cup {"connEnd"} =>
            handlers'[h] = handlers[h] /\ connected'[h] = connected[h]]_vars


\* The part of C15 about the connected flag alone: it stays false once the
\* Connection is ended.
C15_ConnectedStaysFalse ==
  [][\A h \in Hosts : connEnded[h] => ~connected'[h]]_vars

(* -------------------- C16: the reconnect cycle goes on ----------------- *)

\* The Connection with its timer and its socket's pending events bound to
\* happen: a timer that is armed fires, a socket that failed closes.
SpecConnFair ==
  /\ SpecConn
  /\ WF_vars(TimerFire(ConnHost))
  /\ WF_vars(StreamClose(ConnHost))

\* The timer's callback has just run: the attempt is issued and reconnecting
\* is cleared.
AttemptIssued(h) == step.op = "timer" /\ step.host = h /\ sock[h] = "connecting" /\ ~reconnecting[h]

\* C16: a Connection that is not ended and has lost its connection is never
\* left with neither a reconnect timer armed nor an attempt in progress.
C16_NeverStranded ==
  \A h \in Hosts : (~connEnded[h] /\ reconnecting[h]) => timers[h] > 0

\* C16, as a progress property: a Connection that lost its connection
\* issues a reconnect attempt, with reconnecting cleared, unless it is ended
\* first.
C16_EventuallyReconnects ==
  (reconnecting[ConnHost] /\ ~connEnded[ConnHost])
     ~> (AttemptIssued(ConnHost) \/ connEnded[ConnHost])

\* Both hold of a Connection whose handlers are all {resolve, reject} pairs:
\* the loop of _connectionLost then throws nothing and the timer is armed.
C16_PairsOnly ==
  \A h \in Hosts : (~connEnded[h] /\ reconnecting[h] /\ ~uncaught) => timers[h] > 0

C16_PairsEventuallyReconnect ==
  (reconnecting[ConnHost] /\ ~connEnded[ConnHost] /\ ~uncaught)
     ~> (AttemptIssued(ConnHost) \/ connEnded[ConnHost])

\* A failed attempt starts another loss cycle: the error of a connecting
\* socket passes the guard of _connectionLost.
C16_FailedAttemptCycles ==
  [][\A h \in Hosts : (step'.op = "error" /\ step'.host = h /\ sock[h] = "connecting"
                        /\ ~connEnded[h] /\ handlers[h] = <<>>) =>
        step'.passed /\ reconnecting'[h] /\ timers'[h] = timers[h] + 1]_vars

(* --------------------------- C17: parse failure ------------------------ *)

\* The 'data' event in which reader.get() threw.
ParseFailed(h) == step'.op = "data" /\ step'.host = h /\ step'.passed

\* The 'close' event of the socket the parse failure destroyed, on a
\* Connection that is not ended.
ClosesDestroyed(h) ==
  step'.op = "close" /\ step'.host = h /\ sock[h] = "destroyed" /\ ~connEnded[h]

\* The parse failure settles no handle, takes no entry out of the handlers
\* and destroys the socket of its own Connection only.
ParseSettlesNothing(h) ==
  /\ handlers' = handlers /\ outcome' = outcome /\ calls' = calls
  /\ sock'[h] = "destroyed"
  /\ \A g \in Hosts \ {h} : sock'[g] = sock[g]
  /\ UNCHANGED <<connected, reconnecting, timers>>

\* The loss signal rejects every pending handle, once, with the
\* connection-lost error and schedules a reconnect.
PendingRejected(h) ==
  /\ \A i \in DOMAIN handlers[h] :
       outcome'[handlers[h][i].id] = "lost"
         /\ calls'[handlers[h][i].id] = calls[handlers[h][i].id] + 1
  /\ handlers'[h] = <<>>
  /\ reconnecting'[h] /\ timers'[h] = timers[h] + 1

\* C17: a parse failure settles no handle and consumes no pending entry; it
\* destroys its socket only, and the handles pending then are rejected with
\* the connection-lost error when the destroyed socket's loss signal
\* arrives, after which a reconnect is scheduled.
C17_ParseFailure ==
  [][\A h \in Hosts :
       /\ ParseFailed(h) => ParseSettlesNothing(h)
       /\ ClosesDestroyed(h) => PendingRejected(h)]_vars

\* The first half holds as it stands.
C17_ParseSettlesNothing ==
  [][\A h \in Hosts : ParseFailed(h) => ParseSettlesNothing(h)]_vars

\* The second half holds when no callback function is among the handlers.
C17_PairsRejectedOnClose ==
  [][\A h \in Hosts :
       (ClosesDestroyed(h) /\ FirstFn(handlers[h]) = 0) => PendingRejected(h)]_vars

\* A parse failure with a handle pending was followed by the close that
\* rejected the handle.
C17_Reached ==
  /\ step.op = "close" /\ step.passed
  /\ reader[ConnHost] # <<>>
  /\ \E id \in UserHandles : outcome[id] = "lost"

(* ----------------------- C18: unsupported commands --------------------- *)

\* The commands C18 is about: missing from the table, marked unsupported,
\* or supported with neither a custom router nor a key index while the ring
\* has more than one member.
Unroutable(r, cmd) ==
  LET d == Descriptor(cmd)
  IN  \/ ~d.present
      \/ ~d.supported
      \/ ~d.router /\ ~d.hasKey /\ Len(r.members) > 1

\* C18: on an attached manager that is not ended, submitting such a command
\* rejects the handle of that submit, once, with the command-not-supported
\* error; nothing is written to any Connection and no other handle, queue,
\* ring or server map changes.
C18_Unsupported ==
  [][(step'.op = "sendCommand" /\ Attached /\ Unroutable(ring, step'.cmd)) =>
       /\ outcome'[step'.id] = "unsupported"
       /\ calls'[step'.id] = 1
       /\ \A id \in HandleIds \ {step'.id} :
            outcome'[id] = outcome[id] /\ calls'[id] = calls[id]
       /\ UNCHANGED <<handlers, wire, offlineQueue, ring, servers>>]_vars

\* A supported command with no key index and no custom router was refused on
\* a ring of two members.
C18_Witness ==
  /\ step.op = "sendCommand" /\ step.cmd = "PING"
  /\ ~ended /\ Len(ring.members) = 2
  /\ outcome[step.id] = "unsupported" /\ calls[step.id] = 1

\* A command marked unsupported was refused though it carried a key.
C18_WitnessMarked ==
  /\ step.op = "sendCommand" /\ step.cmd = "SUBSCRIBE" /\ step.argv # <<>>
  /\ ~ended /\ ring.built /\ servers # {}
  /\ outcome[step.id] = "unsupported"

(* ------------------- C19: replies across reconnects -------------------- *)

\* The handles the replies h's socket has yet to deliver belong to: those of
\* the replies the decoder holds, then those of the commands on the wire.
Owed(h) == [i \in DOMAIN reader[h] |-> reader[h][i].to] \o wire[h]

\* C19: in every interleaving of writes, loss signals, the reconnect timer,
\* connects and replies, a reply is delivered only to the handle of the
\* command it answers, the one written on the socket connection that
\* produced the reply.
C19_ReplyToOwnCommand ==
  \A id \in HandleIds : repliedBy[id] \in {0, id}

\* The other half of C19: a handle that write appended while the socket was
\* down is not at the head of the handlers of a socket that is up again,
\* where the next reply would settle it.
C19_NoStaleHead ==
  \A h \in Hosts :
    ( /\ sock[h] = "open" /\ ~connEnded[h] /\ handlers[h] # <<>>
      /\ \A i \in DOMAIN reader[h] : reader[h][i].kind # "bad" ) =>
       (Owed(h) # <<>> /\ Head(handlers[h]).id = Head(Owed(h)))

\* What the code does keep: a write on a socket that is open or connecting
\* leaves the handlers in step with the replies owed.
C19_LiveWriteKeepsOrder ==
  [][\A h \in Hosts :
       (step'.op = "write" /\ step'.host = h /\ sock[h] \in Writable /\ Aligned(h))
       => Aligned(h)']_vars

(* --------------------- C20: membership after end() --------------------- *)

\* No Server is created or registered and the ring gains nothing.
MembershipFrozen ==
  /\ servers' \subseteq servers
  /\ \A h \in Hosts : sock[h] = "none" => sock'[h] = "none"
  /\ ring'.built = ring.built
  /\ Range(ring'.members) \subseteq Range(ring.members)

\* C20: once the manager is ended, no Server is created or registered and
\* the ring is not rebuilt, whatever comes after end(): the discovery
\* callback with its result, or a serverRemove that has a replacement to
\* promote.
C20_EndedFreezesMembership ==
  [][ended => MembershipFrozen]_vars

\* The part of C20 about serverRemove alone.
C20_NoPromotionAfterEnd ==
  [][(ended /\ step'.op = "serverRemove") => MembershipFrozen]_vars

\* What does hold after end(): commands are refused and nothing is queued.
C20_EndedStaysEnded ==
  [][ended => (ended' /\ ~offlineQueue'.exists /\ handlers' = handlers)]_vars

=============================================================================
